---- MODULE Spec2Model ----
(***************************************************************************)
(* Access-key handlers of api/projects/keys.go: KeyMiddleware, GetKeys,    *)
(* AddKey, UpdateKey and RemoveKey, run against the Store collaborator     *)
(* (key table + event log).  Several requests are in flight at once: a     *)
(* request that is routed through KeyMiddleware holds the key it loaded    *)
(* in its context until its handler runs.                                  *)
(***************************************************************************)
EXTENDS Integers, Sequences, FiniteSets, TLC

\* ------------------------------------------------------------------ bounds
MaxKeys == 2        \* ids the store hands out before AddKey is no longer tried
MaxRequests == 2    \* requests the server receives after it started

Projects == {1, 2}                 \* project ids of the request context
Slots == {1, 2}                    \* requests in flight behind KeyMiddleware
KeyIDs == 1..MaxKeys
Names == {"k"}
NL == "\n"

\* A Go pointer: Nil or Ptr(v).
Nil == <<>>
Ptr(v) == <<v>>
IsNil(p) == p = <<>>
Deref(p) == p[1]

\* Strings are sequences of characters.
Str == {<<>>, <<"a">>, <<"b">>}
SecretInputs == {Nil} \cup {Ptr(s) : s \in Str}
TypeInputs == {"ssh", "aws", "bogus"}
ProjectIDInputs == {Nil} \cup {Ptr(p) : p \in Projects}

\* Outcomes the store collaborator can report.
StoreErrs == {"nil", "ErrStore"}

VARIABLES
    keys,      \* access_key table: id -> db.AccessKey row
    nextID,    \* next id the store assigns
    events,    \* event table, append-only
    reqs,      \* per in-flight request: the context set by KeyMiddleware
    received,  \* requests received so far
    last,      \* the handler run whose response is being written out
    supplied   \* history: per key id, the last non-empty secret a successful
               \* AddKey or UpdateKey request for that key supplied (Nil: none)

vars == <<keys, nextID, events, reqs, received, last, supplied>>

\* ------------------------------------------------------------- responses
NoResp == [writer |-> "none", status |-> 0, error |-> "", inUse |-> FALSE]
WriteJSONError(code, msg) ==
    [writer |-> "WriteJSON", status |-> code, error |-> msg, inUse |-> FALSE]
WriteJSONInUse(code, msg) ==
    [writer |-> "WriteJSON", status |-> code, error |-> msg, inUse |-> TRUE]
WriteJSONOK == [writer |-> "WriteJSON", status |-> 200, error |-> "", inUse |-> FALSE]
WriteError(err) == [writer |-> "WriteError", status |-> 0, error |-> err, inUse |-> FALSE]
WriteHeaderNoContent ==
    [writer |-> "WriteHeader", status |-> 204, error |-> "", inUse |-> FALSE]
BindFailed == [writer |-> "Bind", status |-> 0, error |-> "bind", inUse |-> FALSE]
\* a nil dereference: the handler goroutine panics, nothing is written
Panicked == [writer |-> "panic", status |-> 0, error |-> "nil dereference", inUse |-> FALSE]

\* ------------------------------------------------------------ the Store
Call(op, arg, res) == [op |-> op, arg |-> arg, res |-> res]

StoreGetAccessKey(ks, projectID, keyID) ==
    IF keyID \in DOMAIN ks /\ ks[keyID].ProjectID = Ptr(projectID)
    THEN [err |-> "nil", key |-> Ptr(ks[keyID])]
    ELSE [err |-> "ErrNotFound", key |-> Nil]

\* keys of the project that are not soft-deleted
StoreGetAccessKeys(ks, projectID) ==
    {id \in DOMAIN ks : ks[id].ProjectID = Ptr(projectID) /\ ~ks[id].Removed}

StoreCreateAccessKey(ks, nid, key, out) ==
    IF out # "nil"
    THEN [err |-> out, keys |-> ks, nextID |-> nid, newKey |-> key]
    ELSE LET newKey == [key EXCEPT !.ID = nid, !.Removed = FALSE]
         IN  [err |-> "nil", keys |-> (nid :> newKey) @@ ks,
              nextID |-> nid + 1, newKey |-> newKey]

StoreUpdateAccessKey(ks, key, out) ==
    IF out # "nil" THEN [err |-> out, keys |-> ks]
    ELSE IF key.ID \notin DOMAIN ks THEN [err |-> "ErrNotFound", keys |-> ks]
    ELSE [err |-> "nil",
          keys |-> [ks EXCEPT ![key.ID].Name = key.Name,
                              ![key.ID].Type = key.Type,
                              ![key.ID].Secret = key.Secret]]

StoreDeleteAccessKeySoft(ks, projectID, keyID, out) ==
    IF out = "ErrStore" THEN [err |-> out, keys |-> ks]
    ELSE IF ~(keyID \in DOMAIN ks /\ ks[keyID].ProjectID = Ptr(projectID))
    THEN [err |-> "ErrNotFound", keys |-> ks]
    ELSE [err |-> "nil", keys |-> [ks EXCEPT ![keyID].Removed = TRUE]]

\* out = "ErrInvalidOperation": the key is referenced by a dependent entity
StoreDeleteAccessKey(ks, projectID, keyID, out) ==
    IF out = "ErrStore" THEN [err |-> out, keys |-> ks]
    ELSE IF ~(keyID \in DOMAIN ks /\ ks[keyID].ProjectID = Ptr(projectID))
    THEN [err |-> "ErrNotFound", keys |-> ks]
    ELSE IF out = "ErrInvalidOperation" THEN [err |-> out, keys |-> ks]
    ELSE [err |-> "nil", keys |-> [id \in DOMAIN ks \ {keyID} |-> ks[id]]]

StoreCreateEvent(evs, event, out) ==
    IF out # "nil" THEN [err |-> out, events |-> evs]
    ELSE [err |-> "nil", events |-> Append(evs, event)]

\* db.Event as the handlers fill it; a field they leave out is Nil
Event(projectID, objectType, objectID, description) ==
    [ProjectID |-> projectID, ObjectType |-> objectType,
     ObjectID |-> objectID, Description |-> description]

\* ------------------------------------------------------------- handlers
\* The outcome of one handler run: the response, the store calls made in
\* order, the store afterwards, and whether log.Error was called.
Outcome(resp, calls, ks, nid, evs, logged) ==
    [resp |-> resp, calls |-> calls, keys |-> ks, nextID |-> nid,
     events |-> evs, logged |-> logged]

Description(name, verb) == <<"Access Key ", name, verb>>

\* mutant: the ssh case tests the pointer only, not the length
AddKeyTypeCheck_NilOnly(key) ==
    CASE key.Type \in {"aws", "gcloud", "do"} -> "ok"
      [] key.Type = "ssh" -> IF IsNil(key.Secret) THEN "SSH Secret empty" ELSE "ok"
      [] OTHER -> "Invalid key type"

\* the switch on key.Type, written out in AddKey
AddKeyTypeCheck(key) ==
    CASE key.Type \in {"aws", "gcloud", "do"} -> "ok"
      [] key.Type = "ssh" ->
            IF IsNil(key.Secret) \/ Len(Deref(key.Secret)) = 0
            THEN "SSH Secret empty" ELSE "ok"
      [] OTHER -> "Invalid key type"

\* mutant: the switch has no default case
UpdateKeyTypeCheck_NoDefault(key) ==
    CASE key.Type = "ssh" ->
            IF IsNil(key.Secret) \/ Len(Deref(key.Secret)) = 0
            THEN "SSH Secret empty" ELSE "ok"
      [] OTHER -> "ok"

\* the switch on key.Type, written out again in UpdateKey
UpdateKeyTypeCheck(key) ==
    CASE key.Type \in {"aws", "gcloud", "do"} -> "ok"
      [] key.Type = "ssh" ->
            IF IsNil(key.Secret) \/ Len(Deref(key.Secret)) = 0
            THEN "SSH Secret empty" ELSE "ok"
      [] OTHER -> "Invalid key type"

\* AddKey after a successful CreateAccessKey: the event and the response
AddKeyEvent(calls, ks, nid, evs, key, newKey, eventOut) ==
    LET ev == Event(newKey.ProjectID, Ptr("key"), Ptr(newKey.ID),
                    Ptr(Description(key.Name, " created")))
        e  == StoreCreateEvent(evs, ev, eventOut)
    IN  Outcome(WriteHeaderNoContent,
                Append(calls, Call("CreateEvent", ev, e.err)),
                ks, nid, e.events, e.err # "nil")

\* mutant: only the nil test
ProjectMismatch_NilOnly(project, key) == IsNil(key.ProjectID)

\* key.ProjectID == nil || *key.ProjectID != project.ID
ProjectMismatch(project, key) ==
    IsNil(key.ProjectID) \/ Deref(key.ProjectID) # project

\* mutant: a failed CreateAccessKey is attempted a second time
AddKeyRun_Retry(ks, nid, evs, project, bound, key, createOut, eventOut) ==
    IF ~bound THEN Outcome(BindFailed, <<>>, ks, nid, evs, FALSE)
    ELSE IF ProjectMismatch(project, key)
    THEN Outcome(WriteJSONError(400, "Project ID in body and URL must be the same"),
                 <<>>, ks, nid, evs, FALSE)
    ELSE IF AddKeyTypeCheck(key) # "ok"
    THEN Outcome(WriteJSONError(400, AddKeyTypeCheck(key)), <<>>, ks, nid, evs, FALSE)
    ELSE IF IsNil(key.Secret)
    THEN Outcome(Panicked, <<>>, ks, nid, evs, FALSE)
    ELSE LET key2 == [key EXCEPT !.Secret = Ptr(Deref(key.Secret) \o <<NL>>)]
             c    == StoreCreateAccessKey(ks, nid, key2, createOut)
             log  == <<Call("CreateAccessKey", key2, c.err)>>
         IN  IF c.err # "nil"
             THEN LET c2 == StoreCreateAccessKey(c.keys, c.nextID, key2, createOut)
                  IN  Outcome(WriteError(c2.err),
                              Append(log, Call("CreateAccessKey", key2, c2.err)),
                              c2.keys, c2.nextID, evs, FALSE)
             ELSE AddKeyEvent(log, c.keys, c.nextID, evs, key, c.newKey, eventOut)

AddKeyRun(ks, nid, evs, project, bound, key, createOut, eventOut) ==
    IF ~bound THEN Outcome(BindFailed, <<>>, ks, nid, evs, FALSE)
    ELSE IF ProjectMismatch(project, key)
    THEN Outcome(WriteJSONError(400, "Project ID in body and URL must be the same"),
                 <<>>, ks, nid, evs, FALSE)
    ELSE IF AddKeyTypeCheck(key) # "ok"
    THEN Outcome(WriteJSONError(400, AddKeyTypeCheck(key)), <<>>, ks, nid, evs, FALSE)
    ELSE IF IsNil(key.Secret)
    THEN Outcome(Panicked, <<>>, ks, nid, evs, FALSE)      \* *key.Secret += "\n"
    ELSE LET key2 == [key EXCEPT !.Secret = Ptr(Deref(key.Secret) \o <<NL>>)]
             c    == StoreCreateAccessKey(ks, nid, key2, createOut)
             log  == <<Call("CreateAccessKey", key2, c.err)>>
         IN  IF c.err # "nil"
             THEN Outcome(WriteError(c.err), log, c.keys, c.nextID, evs, FALSE)
             ELSE AddKeyEvent(log, c.keys, c.nextID, evs, key, c.newKey, eventOut)

\* mutant: the newline is appended to whichever secret is stored
UpdateKeySecret_Reappend(oldKey, key) ==
    IF IsNil(key.Secret) \/ Len(Deref(key.Secret)) = 0
    THEN Ptr(Deref(oldKey.Secret) \o <<NL>>)
    ELSE Ptr(Deref(key.Secret) \o <<NL>>)

\* the secret UpdateKey hands to the store
UpdateKeySecret(oldKey, key) ==
    IF IsNil(key.Secret) \/ Len(Deref(key.Secret)) = 0
    THEN oldKey.Secret
    ELSE Ptr(Deref(key.Secret) \o <<NL>>)

\* UpdateKey after a successful UpdateAccessKey: the event and the response
\* mutant: the event names the project and the ID of the bound body
UpdateKeyEvent_NewKey(calls, ks, nid, evs, oldKey, key, eventOut) ==
    LET ev == Event(key.ProjectID, Ptr("key"), Ptr(key.ID),
                    Ptr(Description(key.Name, " updated")))
        e  == StoreCreateEvent(evs, ev, eventOut)
        log == Append(calls, Call("CreateEvent", ev, e.err))
    IN  IF e.err # "nil"
        THEN Outcome(NoResp, log, ks, nid, e.events, TRUE)
        ELSE Outcome(WriteHeaderNoContent, log, ks, nid, e.events, FALSE)

UpdateKeyEvent(calls, ks, nid, evs, oldKey, key, eventOut) ==
    LET ev == Event(oldKey.ProjectID, Ptr("key"), Ptr(oldKey.ID),
                    Ptr(Description(key.Name, " updated")))
        e  == StoreCreateEvent(evs, ev, eventOut)
        log == Append(calls, Call("CreateEvent", ev, e.err))
    IN  IF e.err # "nil"
        THEN Outcome(NoResp, log, ks, nid, e.events, TRUE)   \* log.Error; return
        ELSE Outcome(WriteHeaderNoContent, log, ks, nid, e.events, FALSE)

\* mutant: the error of UpdateAccessKey is not checked before the event
UpdateKeyRun_EventOnError(ks, nid, evs, oldKey, bound, key, updateOut, eventOut) ==
    IF ~bound THEN Outcome(BindFailed, <<>>, ks, nid, evs, FALSE)
    ELSE IF UpdateKeyTypeCheck(key) # "ok"
    THEN Outcome(WriteJSONError(400, UpdateKeyTypeCheck(key)), <<>>, ks, nid, evs, FALSE)
    ELSE LET key2 == [key EXCEPT !.Secret = UpdateKeySecret(oldKey, key)]
             u    == StoreUpdateAccessKey(ks, key2, updateOut)
             log  == <<Call("UpdateAccessKey", key2, u.err)>>
         IN  UpdateKeyEvent(log, u.keys, nid, evs, oldKey, key2, eventOut)

UpdateKeyRun(ks, nid, evs, oldKey, bound, key, updateOut, eventOut) ==
    IF ~bound THEN Outcome(BindFailed, <<>>, ks, nid, evs, FALSE)
    ELSE IF UpdateKeyTypeCheck(key) # "ok"
    THEN Outcome(WriteJSONError(400, UpdateKeyTypeCheck(key)), <<>>, ks, nid, evs, FALSE)
    ELSE LET key2 == [key EXCEPT !.Secret = UpdateKeySecret(oldKey, key)]
             u    == StoreUpdateAccessKey(ks, key2, updateOut)
             log  == <<Call("UpdateAccessKey", key2, u.err)>>
         IN  IF u.err # "nil"
             THEN Outcome(WriteError(u.err), log, u.keys, nid, evs, FALSE)
             ELSE UpdateKeyEvent(log, u.keys, nid, evs, oldKey, key2, eventOut)

\* mutant: the test is inverted
SoftDeletion_Inverted(setRemoved) == Len(setRemoved) # 0

\* softDeletion := len(r.URL.Query().Get("setRemoved")) == 0
SoftDeletion(setRemoved) == Len(setRemoved) = 0

\* mutant: a failed event write ends the request, as it does in UpdateKey
RemoveKeyEvent_Abort(calls, ks, nid, evs, key, eventOut) ==
    LET ev == Event(key.ProjectID, Nil, Nil, Ptr(Description(key.Name, " deleted")))
        e  == StoreCreateEvent(evs, ev, eventOut)
        log == Append(calls, Call("CreateEvent", ev, e.err))
    IN  IF e.err # "nil"
        THEN Outcome(NoResp, log, ks, nid, e.events, TRUE)
        ELSE Outcome(WriteHeaderNoContent, log, ks, nid, e.events, FALSE)

\* RemoveKey after a successful delete: the event and the response
RemoveKeyEvent(calls, ks, nid, evs, key, eventOut) ==
    LET ev == Event(key.ProjectID, Nil, Nil, Ptr(Description(key.Name, " deleted")))
        e  == StoreCreateEvent(evs, ev, eventOut)
    IN  Outcome(WriteHeaderNoContent,
                Append(calls, Call("CreateEvent", ev, e.err)),
                ks, nid, e.events, e.err # "nil")

\* mutant: db.ErrInvalidOperation is not told apart from other errors
RemoveKeyRun_NoInUse(ks, nid, evs, key, setRemoved, deleteOut, eventOut) ==
    LET pid == Deref(key.ProjectID)
        d   == IF SoftDeletion(setRemoved)
               THEN StoreDeleteAccessKeySoft(ks, pid, key.ID, deleteOut)
               ELSE StoreDeleteAccessKey(ks, pid, key.ID, deleteOut)
        op  == IF SoftDeletion(setRemoved) THEN "DeleteAccessKeySoft"
               ELSE "DeleteAccessKey"
        log == <<Call(op, <<pid, key.ID>>, d.err)>>
    IN  IF d.err # "nil"
        THEN Outcome(WriteError(d.err), log, d.keys, nid, evs, FALSE)
        ELSE RemoveKeyEvent(log, d.keys, nid, evs, key, eventOut)

RemoveKeyRun(ks, nid, evs, key, setRemoved, deleteOut, eventOut) ==
    LET pid == Deref(key.ProjectID)
        d   == IF SoftDeletion(setRemoved)
               THEN StoreDeleteAccessKeySoft(ks, pid, key.ID, deleteOut)
               ELSE StoreDeleteAccessKey(ks, pid, key.ID, deleteOut)
        op  == IF SoftDeletion(setRemoved) THEN "DeleteAccessKeySoft"
               ELSE "DeleteAccessKey"
        log == <<Call(op, <<pid, key.ID>>, d.err)>>
    IN  IF ~SoftDeletion(setRemoved) /\ d.err = "ErrInvalidOperation"
        THEN Outcome(WriteJSONInUse(400, "Inventory is in use by one or more templates"),
                     log, d.keys, nid, evs, FALSE)
        ELSE IF d.err # "nil"
        THEN Outcome(WriteError(d.err), log, d.keys, nid, evs, FALSE)
        ELSE RemoveKeyEvent(log, d.keys, nid, evs, key, eventOut)

\* ids in ascending order, reversed when params.SortInverted
RECURSIVE SortedIDs(_)
SortedIDs(S) ==
    IF S = {} THEN <<>>
    ELSE LET m == CHOOSE x \in S : \A y \in S : x <= y
         IN  <<m>> \o SortedIDs(S \ {m})

Reverse(s) == [i \in 1..Len(s) |-> s[Len(s) + 1 - i]]

GetKeysRun(ks, ctxKey, project, sortInverted, getOut) ==
    IF ~IsNil(ctxKey) THEN [resp |-> WriteJSONOK, listed |-> <<Deref(ctxKey).ID>>]
    ELSE IF getOut # "nil" THEN [resp |-> WriteError(getOut), listed |-> <<>>]
    ELSE LET ids == SortedIDs(StoreGetAccessKeys(ks, project))
         IN  [resp |-> WriteJSONOK,
              listed |-> IF sortInverted THEN Reverse(ids) ELSE ids]

\* -------------------------------------------------------------- requests
ZeroKey == [ID |-> 0, ProjectID |-> Nil, Name |-> "", Type |-> "",
            Secret |-> Nil, Removed |-> FALSE]

\* what helpers.Bind can decode into a db.AccessKey
Bodies(ids) ==
    [ID : ids, ProjectID : ProjectIDInputs, Name : Names, Type : TypeInputs,
     Secret : SecretInputs, Removed : {FALSE}]

\* helpers.Bind(w, r, &key): the decoded body, or failure
Bind(ids) ==
    {[ok |-> TRUE, key |-> k] : k \in Bodies(ids)} \cup {[ok |-> FALSE, key |-> ZeroKey]}

SetRemovedInputs == {<<>>, <<"1">>}

\* helpers.GetIntParam: the key_id of the URL, or an error
KeyIDParams ==
    {[ok |-> TRUE, keyID |-> k] : k \in KeyIDs} \cup {[ok |-> FALSE, keyID |-> 0]}

Idle == [pc |-> "idle", project |-> 0, accessKey |-> Nil]

NoRun == [handler |-> "none", project |-> 0, accessKey |-> Nil, bound |-> FALSE,
          body |-> ZeroKey, setRemoved |-> <<>>, resp |-> NoResp, calls |-> <<>>,
          logged |-> FALSE, listed |-> <<>>, preKeys |-> <<>>, preEvents |-> <<>>]

\* The store a server can find when it starts: what an earlier AddKey of an
\* ssh key (secret "a", project 1) has left in an empty store.
SeedBody == [ID |-> 0, ProjectID |-> Ptr(1), Name |-> "k", Type |-> "ssh",
             Secret |-> Ptr(<<"a">>), Removed |-> FALSE]
Seed == AddKeyRun(<<>>, 1, <<>>, 1, TRUE, SeedBody, "nil", "nil")

\* The server starts on an empty store or on the seeded one; no request is
\* in flight.
Init ==
    /\ \/ /\ keys = <<>>
          /\ nextID = 1
          /\ events = <<>>
          /\ supplied = <<>>
       \/ /\ keys = Seed.keys
          /\ nextID = Seed.nextID
          /\ events = Seed.events
          /\ supplied = (1 :> SeedBody.Secret)
    /\ reqs = [r \in Slots |-> Idle]
    /\ received = 0
    /\ last = NoRun

\* a request is received: the server has room for it and is not in the
\* middle of writing out a response
Receive ==
    /\ last = NoRun
    /\ received < MaxRequests
    /\ received' = received + 1

\* KeyMiddleware: load the key of the URL into the request context; the
\* request then goes on to the handler of its route (next.ServeHTTP).
KeyMiddleware(r) ==
    /\ Receive
    /\ reqs[r].pc = "idle"
    /\ \A q \in Slots : q < r => reqs[q].pc # "idle"
    /\ \E project \in Projects, param \in KeyIDParams, getOut \in StoreErrs :
         LET g == IF getOut # "nil" THEN [err |-> getOut, key |-> Nil]
                  ELSE StoreGetAccessKey(keys, project, param.keyID)
         IN  IF ~param.ok \/ g.err # "nil"
             THEN reqs' = reqs
             ELSE reqs' = [reqs EXCEPT ![r] =
                     [pc |-> "next", project |-> project, accessKey |-> g.key]]
    /\ UNCHANGED <<keys, nextID, events, last, supplied>>

\* the key-store mutation of the run was made and succeeded
Mutated(calls) == Len(calls) >= 1 /\ calls[1].res = "nil"

\* a supplied secret, Nil when it is absent or empty
NonEmpty(secret) ==
    IF IsNil(secret) \/ Len(Deref(secret)) = 0 THEN Nil ELSE secret

Apply(o) ==
    /\ keys' = o.keys
    /\ nextID' = o.nextID
    /\ events' = o.events

Run(handler) == [NoRun EXCEPT !.handler = handler, !.preKeys = keys,
                              !.preEvents = events]

\* GetKeys behind KeyMiddleware: the key of the context
GetKeysOne(r) ==
    /\ last = NoRun
    /\ reqs[r].pc = "next"
    /\ LET o == GetKeysRun(keys, reqs[r].accessKey, reqs[r].project, FALSE, "nil")
       IN  last' = [Run("GetKeys") EXCEPT !.project = reqs[r].project,
                       !.accessKey = reqs[r].accessKey, !.resp = o.resp,
                       !.listed = o.listed]
    /\ reqs' = [reqs EXCEPT ![r] = Idle]
    /\ UNCHANGED <<keys, nextID, events, received, supplied>>

\* GetKeys on the collection route: the keys of the project
GetKeys ==
    /\ Receive
    /\ \E project \in Projects, sortInverted \in BOOLEAN, getOut \in StoreErrs :
         LET o == GetKeysRun(keys, Nil, project, sortInverted, getOut)
         IN  last' = [Run("GetKeys") EXCEPT !.project = project,
                         !.resp = o.resp, !.listed = o.listed]
    /\ UNCHANGED <<keys, nextID, events, reqs, supplied>>

AddKey ==
    /\ Receive
    /\ nextID <= MaxKeys
    /\ \E project \in Projects, b \in Bind({0}),
          createOut \in StoreErrs, eventOut \in StoreErrs :
         LET bound == b.ok
             body == b.key
             o == AddKeyRun(keys, nextID, events, project, bound, body,
                            createOut, eventOut)
         IN  /\ Apply(o)
             /\ last' = [Run("AddKey") EXCEPT !.project = project,
                            !.bound = bound, !.body = body,
                            !.resp = o.resp, !.calls = o.calls, !.logged = o.logged]
             /\ supplied' = IF Mutated(o.calls)
                            THEN (nextID :> NonEmpty(body.Secret)) @@ supplied
                            ELSE supplied
    /\ UNCHANGED reqs

UpdateKey(r) ==
    /\ last = NoRun
    /\ reqs[r].pc = "next"
    /\ \E b \in Bind(KeyIDs), updateOut \in StoreErrs, eventOut \in StoreErrs :
         LET bound == b.ok
             body == b.key
             o == UpdateKeyRun(keys, nextID, events, Deref(reqs[r].accessKey),
                               bound, body, updateOut, eventOut)
         IN  /\ Apply(o)
             /\ last' = [Run("UpdateKey") EXCEPT
                            !.project = reqs[r].project,
                            !.accessKey = reqs[r].accessKey,
                            !.bound = bound, !.body = body,
                            !.resp = o.resp, !.calls = o.calls, !.logged = o.logged]
             /\ supplied' =
                   LET id == Deref(reqs[r].accessKey).ID
                   IN  IF Mutated(o.calls) /\ ~IsNil(NonEmpty(body.Secret))
                          /\ id \in DOMAIN supplied
                       THEN [supplied EXCEPT ![id] = NonEmpty(body.Secret)]
                       ELSE supplied
    /\ reqs' = [reqs EXCEPT ![r] = Idle]
    /\ UNCHANGED received

RemoveKey(r) ==
    /\ last = NoRun
    /\ reqs[r].pc = "next"
    /\ \E setRemoved \in SetRemovedInputs,
          deleteOut \in StoreErrs \cup {"ErrInvalidOperation"}, eventOut \in StoreErrs :
         LET o == RemoveKeyRun(keys, nextID, events, Deref(reqs[r].accessKey),
                               setRemoved, deleteOut, eventOut)
         IN  /\ Apply(o)
             /\ last' = [Run("RemoveKey") EXCEPT
                            !.project = reqs[r].project,
                            !.accessKey = reqs[r].accessKey,
                            !.setRemoved = setRemoved,
                            !.resp = o.resp, !.calls = o.calls, !.logged = o.logged]
    /\ reqs' = [reqs EXCEPT ![r] = Idle]
    /\ UNCHANGED <<received, supplied>>

\* the handler has returned and its response has gone out
Respond ==
    /\ last # NoRun
    /\ last' = NoRun
    /\ UNCHANGED <<keys, nextID, events, reqs, received, supplied>>

Next ==
    \/ \E r \in Slots : KeyMiddleware(r)
    \/ \E r \in Slots : GetKeysOne(r)
    \/ GetKeys
    \/ AddKey
    \/ \E r \in Slots : UpdateKey(r)
    \/ \E r \in Slots : RemoveKey(r)
    \/ Respond

Spec == Init /\ [][Next]_vars

\* The status the client sees: a handler that returns without writing
\* leaves net/http to send the response, which it does with 200 OK.
SentStatus(resp) == IF resp.writer = "none" THEN 200 ELSE resp.status

\* ---------------------------------------------------------------- claims
ValidTypes == {"aws", "gcloud", "do", "ssh"}
CloudTypes == {"aws", "gcloud", "do"}

BodyProjectDiffers ==
    IsNil(last.body.ProjectID) \/ Deref(last.body.ProjectID) # last.project
BodySecretEmpty ==
    IsNil(last.body.Secret) \/ Len(Deref(last.body.Secret)) = 0
ClientError == last.resp.writer = "WriteJSON" /\ last.resp.status = 400
NoContent == last.resp.writer = "WriteHeader" /\ last.resp.status = 204
StoreUntouched ==
    /\ last.calls = <<>>
    /\ keys = last.preKeys
    /\ events = last.preEvents
CallOps == [i \in 1..Len(last.calls) |-> last.calls[i].op]
Mutators == {"AddKey", "UpdateKey", "RemoveKey"}

\* C1: AddKey with a body whose ProjectID is absent or is not the project of
\* the request context answers with a client error and makes no store call;
\* keys and events are as they were.
C1_ProjectMismatchRejected ==
    (last.handler = "AddKey" /\ last.bound /\ BodyProjectDiffers)
        => (ClientError /\ StoreUntouched)

C1_Witness ==
    /\ last.handler = "AddKey" /\ last.bound
    /\ ~IsNil(last.body.ProjectID) /\ Deref(last.body.ProjectID) # last.project
    /\ last.body.Type = "ssh" /\ ~BodySecretEmpty
    /\ ClientError
    /\ keys # <<>>

\* C2: AddKey and UpdateKey with a Type outside {aws, gcloud, do, ssh} answer
\* with a validation error (the invalid-type error, unless AddKey already
\* refused the project), write no key and emit no event.
C2_InvalidTypeRejected ==
    (last.handler \in {"AddKey", "UpdateKey"} /\ last.bound
        /\ last.body.Type \notin ValidTypes)
        => /\ ClientError
           /\ StoreUntouched
           /\ (last.handler = "UpdateKey" \/ ~BodyProjectDiffers)
                 => last.resp.error = "Invalid key type"

C2_Witness ==
    /\ last.handler = "UpdateKey" /\ last.bound
    /\ last.body.Type \notin ValidTypes
    /\ ~BodySecretEmpty
    /\ last.resp.error = "Invalid key type"
    /\ last.body.ID \in DOMAIN keys

\* C3: AddKey and UpdateKey with Type ssh and an absent or empty Secret answer
\* with the empty-secret error before any persistence: no store call, no
\* event, the stored keys unchanged.
C3_EmptySshSecretRejected ==
    (last.handler \in {"AddKey", "UpdateKey"} /\ last.bound
        /\ last.body.Type = "ssh" /\ BodySecretEmpty)
        => /\ ClientError
           /\ StoreUntouched
           /\ (last.handler = "UpdateKey" \/ ~BodyProjectDiffers)
                 => last.resp.error = "SSH Secret empty"

C3_Witness ==
    /\ last.handler = "AddKey" /\ last.bound /\ ~BodyProjectDiffers
    /\ last.body.Type = "ssh" /\ last.body.Secret = Ptr(<<>>)
    /\ last.resp.error = "SSH Secret empty"

\* C4: every stored key for which a non-empty secret was supplied holds the
\* most recently supplied one followed by exactly one newline.
C4_StoredSecretIsLastSupplied ==
    \A id \in DOMAIN keys :
        (id \in DOMAIN supplied /\ ~IsNil(supplied[id]))
            => keys[id].Secret = Ptr(Deref(supplied[id]) \o <<NL>>)

\* C5: AddKey with a cloud Type, a matching ProjectID and a store that does
\* not fail persists the key, emits the created event and answers 204,
\* whatever the Secret.
C5_CloudCreateSucceeds ==
    (last.handler = "AddKey" /\ last.bound /\ ~BodyProjectDiffers
        /\ last.body.Type \in CloudTypes
        /\ \A i \in 1..Len(last.calls) : last.calls[i].res = "nil")
        => /\ NoContent
           /\ CallOps = <<"CreateAccessKey", "CreateEvent">>

\* C6: an accepted UpdateKey hands the store the secret of the key loaded
\* for the request when the body has no secret, and the body's secret plus
\* one newline otherwise; a successful update stores exactly that.
C6_Expected ==
    IF BodySecretEmpty THEN Deref(last.accessKey).Secret
    ELSE Ptr(Deref(last.body.Secret) \o <<NL>>)

C6_UpdateSecretMerge ==
    (last.handler = "UpdateKey" /\ last.calls # <<>>)
        => /\ last.calls[1].op = "UpdateAccessKey"
           /\ last.calls[1].arg.Secret = C6_Expected
           /\ last.calls[1].res = "nil" => keys[last.body.ID].Secret = C6_Expected

C6_Witness ==
    /\ last.handler = "UpdateKey" /\ last.calls # <<>>
    /\ last.calls[1].res = "nil"
    /\ IsNil(last.body.Secret)
    /\ keys[last.body.ID].Secret = Ptr(<<"a", NL>>)

\* C7 as stated: a Create, Update or Delete whose key-store mutation succeeded
\* has recorded exactly one event; any other has recorded none.
C7_ExactlyOneEvent ==
    (last.handler \in Mutators)
        => IF Mutated(last.calls)
           THEN Len(events) = Len(last.preEvents) + 1
           ELSE events = last.preEvents

\* C7 amended: a Create, Update or Delete whose key-store mutation succeeded
\* makes exactly one event write, after the mutation, and the log grows by
\* that event if the write succeeds and not at all if it fails; a request
\* that was rejected or whose mutation failed makes no event write.
C7_OneEventWriteAfterMutation ==
    (last.handler \in Mutators)
        => IF Mutated(last.calls)
           THEN /\ Len(last.calls) = 2
                /\ last.calls[1].op \in {"CreateAccessKey", "UpdateAccessKey",
                                         "DeleteAccessKeySoft", "DeleteAccessKey"}
                /\ last.calls[2].op = "CreateEvent"
                /\ events = IF last.calls[2].res = "nil"
                            THEN Append(last.preEvents, last.calls[2].arg)
                            ELSE last.preEvents
           ELSE /\ events = last.preEvents
                /\ \A i \in 1..Len(last.calls) : last.calls[i].op # "CreateEvent"

C7_Witness ==
    /\ last.handler = "UpdateKey"
    /\ Mutated(last.calls)
    /\ last.calls[2].res = "nil"
    /\ Len(events) = 2

\* C8: when the event write of AddKey or RemoveKey fails after the key-store
\* mutation succeeded, the failure is logged, the response is 204 and the
\* mutation is still in the store.
C8_MutationKept ==
    LET c == last.calls[1]
    IN  CASE c.op = "CreateAccessKey" ->
               (nextID - 1) \in DOMAIN keys /\ keys[nextID - 1].Secret = c.arg.Secret
          [] c.op = "DeleteAccessKeySoft" -> keys[c.arg[2]].Removed
          [] c.op = "DeleteAccessKey" -> c.arg[2] \notin DOMAIN keys
          [] OTHER -> FALSE

C8_EventFailureOnlyLogged ==
    (last.handler \in {"AddKey", "RemoveKey"} /\ Mutated(last.calls)
        /\ Len(last.calls) = 2 /\ last.calls[2].res # "nil")
        => /\ NoContent
           /\ last.logged
           /\ events = last.preEvents
           /\ C8_MutationKept

C8_Witness ==
    /\ last.handler = "RemoveKey" /\ Mutated(last.calls)
    /\ Len(last.calls) = 2 /\ last.calls[2].res # "nil"
    /\ last.calls[1].op = "DeleteAccessKey"
    /\ NoContent

\* C9: a hard delete that the store refuses with db.ErrInvalidOperation is
\* answered with the inUse conflict, not with the generic error; the key is
\* in the store as before and no event is recorded.
C9_InUseConflict ==
    (last.handler = "RemoveKey" /\ last.calls # <<>>
        /\ last.calls[1].op = "DeleteAccessKey"
        /\ last.calls[1].res = "ErrInvalidOperation")
        => /\ ClientError
           /\ last.resp.inUse
           /\ last.resp # WriteError("ErrInvalidOperation")
           /\ Len(last.calls) = 1
           /\ Deref(last.accessKey).ID \in DOMAIN keys
           /\ keys = last.preKeys
           /\ events = last.preEvents

C9_Witness ==
    /\ last.handler = "RemoveKey" /\ last.calls # <<>>
    /\ last.calls[1].op = "DeleteAccessKey"
    /\ last.calls[1].res = "ErrInvalidOperation"
    /\ last.resp.inUse
    /\ ~keys[Deref(last.accessKey).ID].Removed

\* C10: RemoveKey makes exactly one store delete call: the soft delete when
\* the request has no setRemoved parameter, the physical delete otherwise;
\* after a successful soft delete the key is found by id and is not listed.
C10_SoftDeleteDefault ==
    (last.handler = "RemoveKey")
        => LET k == Deref(last.accessKey)
               pid == Deref(k.ProjectID)
           IN  /\ Cardinality({i \in 1..Len(last.calls) : last.calls[i].op \in
                        {"DeleteAccessKeySoft", "DeleteAccessKey"}}) = 1
               /\ last.calls[1].op = IF last.setRemoved = <<>>
                                     THEN "DeleteAccessKeySoft" ELSE "DeleteAccessKey"
               /\ last.calls[1].arg = <<pid, k.ID>>
               /\ (last.setRemoved = <<>> /\ Mutated(last.calls))
                     => /\ StoreGetAccessKey(keys, pid, k.ID).err = "nil"
                        /\ k.ID \notin StoreGetAccessKeys(keys, pid)

C10_Witness ==
    /\ last.handler = "RemoveKey"
    /\ last.setRemoved = <<>>
    /\ Mutated(last.calls)
    /\ ~Deref(last.accessKey).Removed
    /\ NoContent

\* C11: the record UpdateKey hands to the store's update names the key
\* loaded for the request, and the update leaves every other key, and every
\* key's ProjectID, as it was.
C11_UpdatesResolvedKeyOnly ==
    (last.handler = "UpdateKey" /\ last.calls # <<>>)
        => LET oldKey == Deref(last.accessKey)
           IN  /\ last.calls[1].arg.ID = oldKey.ID
               /\ \A id \in DOMAIN keys :
                     /\ keys[id].ProjectID = last.preKeys[id].ProjectID
                     /\ id # oldKey.ID => keys[id] = last.preKeys[id]

\* C12: when the event write of UpdateKey fails after the store update
\* succeeded, the failure is logged, no 204 is sent, the caller gets a
\* failure outcome, and the update stays in the store.
C12_FailureOutcome ==
    \/ last.resp.writer \in {"WriteError", "Bind", "panic"}
    \/ SentStatus(last.resp) >= 400

C12_UpdateEventFailureFailsRequest ==
    (last.handler = "UpdateKey" /\ Mutated(last.calls)
        /\ Len(last.calls) = 2 /\ last.calls[2].res # "nil")
        => /\ last.logged
           /\ ~NoContent
           /\ C12_FailureOutcome
           /\ keys[last.body.ID].Secret = last.calls[1].arg.Secret

\* C13: every event a Create, Update or Delete hands to the event log carries
\* the ProjectID of the affected key, the ObjectType "key" and the affected
\* key's ID (for AddKey the ID the store assigned to the new key).
C13_Affected ==
    IF last.handler = "AddKey"
    THEN [ID |-> nextID - 1, ProjectID |-> last.calls[1].arg.ProjectID]
    ELSE [ID |-> Deref(last.accessKey).ID,
          ProjectID |-> Deref(last.accessKey).ProjectID]

C13_EventIdentifiesKey ==
    (last.handler \in Mutators /\ Len(last.calls) = 2
        /\ last.calls[2].op = "CreateEvent")
        => LET ev == last.calls[2].arg
           IN  /\ ev.ProjectID = C13_Affected.ProjectID
               /\ ev.ObjectType = Ptr("key")
               /\ ev.ObjectID = Ptr(C13_Affected.ID)

\* C14: the event UpdateKey emits references the ProjectID and the ID of the
\* key loaded for the request, whatever ProjectID or ID the body carries.
C14_UpdateEventNamesOldKey ==
    (last.handler = "UpdateKey" /\ Len(last.calls) = 2
        /\ last.calls[2].op = "CreateEvent")
        => LET oldKey == Deref(last.accessKey)
               ev     == last.calls[2].arg
           IN  /\ ev.ProjectID = oldKey.ProjectID
               /\ ev.ObjectID = Ptr(oldKey.ID)

C14_Witness ==
    /\ last.handler = "UpdateKey"
    /\ Len(last.calls) = 2
    /\ last.calls[2].res = "nil"
    /\ last.body.ID # Deref(last.accessKey).ID
    /\ last.body.ProjectID # Deref(last.accessKey).ProjectID
    /\ events = Append(last.preEvents, last.calls[2].arg)

\* C15: an UpdateKey of an ssh key whose body keeps the type ssh and omits
\* the secret is accepted and the stored secret of the key stays as it was.
C15_SshUpdateWithoutSecretAccepted ==
    (last.handler = "UpdateKey" /\ last.bound
        /\ Deref(last.accessKey).Type = "ssh"
        /\ last.body.Type = "ssh" /\ BodySecretEmpty)
        => /\ ~ClientError
           /\ last.calls # <<>>
           /\ last.calls[1].op = "UpdateAccessKey"
           /\ \A id \in DOMAIN keys : keys[id].Secret = last.preKeys[id].Secret

\* C16: when the key-store mutation of AddKey, UpdateKey or RemoveKey fails
\* with an error other than the in-use conflict, the handler has made that one
\* store call and no other, answers with the error through WriteError, sends
\* no 204 and records no event.
C16_MutationFailed ==
    /\ last.handler \in Mutators
    /\ last.calls # <<>>
    /\ last.calls[1].res \notin {"nil", "ErrInvalidOperation"}

C16_StoreFailureSurfacedOnce ==
    C16_MutationFailed
        => /\ Len(last.calls) = 1
           /\ last.resp = WriteError(last.calls[1].res)
           /\ ~NoContent
           /\ ~last.logged
           /\ events = last.preEvents

C16_Witness ==
    /\ C16_MutationFailed
    /\ last.handler = "AddKey"
    /\ last.calls[1].op = "CreateAccessKey"
    /\ last.resp.writer = "WriteError"

\* C17: an UpdateKey never changes the stored Type of a key: after the
\* handler every key has the Type it had before.
C17_TypeImmutable ==
    (last.handler = "UpdateKey")
        => \A id \in DOMAIN keys : keys[id].Type = last.preKeys[id].Type

\* C18: under any interleaving of requests, an UpdateKey that supplies no
\* secret leaves the stored secret of its key as it was right before the
\* handler's write.
C18_NoSecretUpdateKeepsStoredSecret ==
    (last.handler = "UpdateKey" /\ last.bound /\ BodySecretEmpty
        /\ Mutated(last.calls)
        /\ last.body.ID = Deref(last.accessKey).ID)
        => keys[last.body.ID].Secret = last.preKeys[last.body.ID].Secret

====
